---- MODULE Spec2Model ----
(***************************************************************************)
(* Model of src/app.py: a Flask task list over one SQLite table `tasks`.   *)
(* Requests are served by workers that share the database file and each    *)
(* open their own connection.  A handler that runs one transaction is one  *)
(* action.  edit_task runs two when its UPDATE matches no row: the UPDATE  *)
(* and its commit, then the SELECT; other requests, further POST edits     *)
(* among them, may be served in between, so that path is two actions.      *)
(* Text is a sequence of Unicode code points.                              *)
(*                                                                         *)
(* Two places of src/app.py are textually damaged:                         *)
(*  - line 189 (a flash of TASK_NOT_FOUND_MSG indented under the DELETE    *)
(*    statement) is read as a statement executed in textual order, after   *)
(*    the DELETE and before the rowcount test;                             *)
(*  - lines 222-229: the call of the SELECT is never closed, and a         *)
(*    duplicated not-found block follows, whose second flash/return pair   *)
(*    is unreachable.  The text does not say what `task` is bound to, so   *)
(*    no value is given to it: where line 225 is reached, `not task` is    *)
(*    drawn either way, and what edit.html is handed is not modelled.      *)
(***************************************************************************)
EXTENDS Integers, Sequences, FiniteSets, Bags

\* ---------------------------------------------------------------- bounds
MaxTasks == 2        \* cap on the AUTOINCREMENT counter (number of inserts)
MaxTyped == 3        \* how many of the sample texts are typed into the form
MaxInFlight == 2     \* cap on the POST edits between their UPDATE and SELECT

\* ------------------------------------------------------------- constants
TASK_NOT_FOUND_MSG == "Task not found!"
MsgEmpty == "Task cannot be empty!"
MsgAdded == "Task added successfully!"
MsgAddFailed == "Failed to add task. Please try again."
MsgDeleted == "Task deleted successfully!"
MsgDeleteFailed == "Failed to delete task. Please try again."
MsgUpdated == "Task updated successfully!"
MsgEditFailed == "Failed to edit task. Please try again."
MsgCompleted == "Task marked as completed!"
MsgCompleteFailed == "Failed to complete task. Please try again."
MsgLoadFailed == "Failed to load tasks. Please try again."

Flash(msg, cat) == <<msg, cat>>

\* ------------------------------------------------------------------ text
\* texts typed into the form field, as code points: a tab, "&" (which
\* escape rewrites), "&amp;" (what is stored for "&", typed again as it is
\* shown), the empty text, "&" between a space and a tab, a no-break space,
\* a space, "a", "<", "a b"
Samples ==
  << <<9>>, <<38>>, <<38, 97, 109, 112, 59>>, <<>>, <<32, 38, 9>>, <<160>>,
     <<32>>, <<97>>, <<60>>, <<97, 32, 98>> >>

Texts(n) == {Samples[k] : k \in 1..n}

\* the submitted form: either without the field `task`, or with a value
Forms ==
  {[has |-> FALSE, val |-> <<>>]}
    \cup {[has |-> TRUE, val |-> s] : s \in Texts(MaxTyped)}

\* request.form.get('task', '')
FormGet(form) == IF form.has THEN form.val ELSE <<>>

\* the characters str.strip() removes: those for which str.isspace() holds
IsSpace(c) ==
  \/ c \in {9, 10, 11, 12, 13, 28, 29, 30, 31, 32, 133, 160, 5760}
  \/ c \in 8192..8202
  \/ c \in {8232, 8233, 8239, 8287, 12288}

RECURSIVE LStrip(_)
LStrip(s) ==
  IF s = <<>> THEN <<>>
  ELSE IF IsSpace(Head(s)) THEN LStrip(Tail(s)) ELSE s

RECURSIVE RStrip(_)
RStrip(s) ==
  IF s = <<>> THEN <<>>
  ELSE IF IsSpace(s[Len(s)]) THEN RStrip(SubSeq(s, 1, Len(s) - 1)) ELSE s

\* a strip() that was left out
StripNone(s) == s

\* str.strip()
Strip(s) == RStrip(LStrip(s))

\* & < > " ' become &amp; &lt; &gt; &#34; &#39;
EscapeChar(c) ==
  CASE c = 38 -> <<38, 97, 109, 112, 59>>
    [] c = 60 -> <<38, 108, 116, 59>>
    [] c = 62 -> <<38, 103, 116, 59>>
    [] c = 34 -> <<38, 35, 51, 52, 59>>
    [] c = 39 -> <<38, 35, 51, 57, 59>>
    [] OTHER -> <<c>>

\* werkzeug.utils.escape
RECURSIVE escape(_)
escape(s) ==
  IF s = <<>> THEN <<>> ELSE EscapeChar(Head(s)) \o escape(Tail(s))

\* a validation that lets every text through
ValidAlways(text) == TRUE

\* `if not task` / `if not new_task` negated: the text passes validation
Valid(text) == text # <<>>

\* ----------------------------------------------------------------- table
\* the ids a request names: every id assigned so far and one never assigned
TaskIds(counter) == 1..(counter + 1)

\* the dataclass Task / one row of `tasks`
Task(id, description, created_at, is_completed) ==
  [id |-> id, description |-> description, created_at |-> created_at,
   is_completed |-> is_completed]

\* rows matched by `WHERE id = ?`
WhereId(rows, task_id) == {r \in rows : r.id = task_id}

\* a rowcount that reports a row whether or not one matched
RowCountOne(rows, task_id) == 1

\* cursor.rowcount of an UPDATE or DELETE keyed by id
RowCount(rows, task_id) == Cardinality(WhereId(rows, task_id))

\* an ordering that breaks ties on created_at by the smallest rowid
FirstDescOldestTie(rows) ==
  CHOOSE r \in rows :
    \A q \in rows :
      \/ q.created_at < r.created_at
      \/ (q.created_at = r.created_at /\ q.id >= r.id)

\* the row that comes first in a descending scan of idx_created_at:
\* greatest created_at, and among equal created_at the greatest rowid
FirstDesc(rows) ==
  CHOOSE r \in rows :
    \A q \in rows :
      \/ q.created_at < r.created_at
      \/ (q.created_at = r.created_at /\ q.id <= r.id)

\* SELECT * FROM tasks ORDER BY created_at DESC
RECURSIVE SelectAll(_)
SelectAll(rows) ==
  IF rows = {} THEN <<>>
  ELSE LET r == FirstDesc(rows) IN <<r>> \o SelectAll(rows \ {r})

\* INSERT INTO tasks (description) VALUES (?)
InsertRow(rows, counter, description, clock) ==
  rows \cup {Task(counter + 1, description, clock, FALSE)}

\* DELETE FROM tasks WHERE id = ?
DeleteRow(rows, task_id) == rows \ WhereId(rows, task_id)

\* an update that rewrites the row with the column defaults (REPLACE INTO)
UpdateDescriptionReset(rows, task_id, description) ==
  {IF r.id = task_id
     THEN Task(r.id, description, r.created_at, FALSE)
     ELSE r : r \in rows}

\* UPDATE tasks SET description = ? WHERE id = ?
UpdateDescription(rows, task_id, description) ==
  {IF r.id = task_id
     THEN Task(r.id, description, r.created_at, r.is_completed)
     ELSE r : r \in rows}

\* an update that toggles the flag (SET is_completed = NOT is_completed)
UpdateCompletedToggle(rows, task_id) ==
  {IF r.id = task_id
     THEN Task(r.id, r.description, r.created_at, ~r.is_completed)
     ELSE r : r \in rows}

\* UPDATE tasks SET is_completed = TRUE WHERE id = ?
UpdateCompleted(rows, task_id) ==
  {IF r.id = task_id
     THEN Task(r.id, r.description, r.created_at, TRUE)
     ELSE r : r \in rows}

\* what the database file holds once the connection is closed: the
\* connection's work if conn.commit() was called, else the old contents
\* (sqlite3 rolls an open transaction back on close)
CloseConn(db, work, committed) == IF committed THEN work ELSE db

\* ----------------------------------------------------------------- state
VARIABLES
  tasks,      \* the rows of table `tasks` in the database file
  seq,        \* the AUTOINCREMENT counter: the greatest id ever assigned
  pending,    \* bag of the ids of POST edits between commit and SELECT
  last,       \* the most recent request answered
  flashes,    \* the messages flashed by that request, in order
  response,   \* how that request was answered
  view        \* the rows handed to index.html

vars == <<tasks, seq, pending, last, flashes, response, view>>

NoForm == [has |-> FALSE, val |-> <<>>]

\* how request.form.get('task', '') reads against the table the request
\* meets: nothing but whitespace (the field absent, empty or blank), the
\* text the named task already has, or other; "unread" stands for a request
\* that never reads the form
InputClass(form, target) ==
  LET val == FormGet(form) IN
  IF \A i \in 1..Len(val) : IsSpace(val[i]) THEN "blank"
  ELSE IF \E r \in target : r.description = val THEN "same"
  ELSE "text"

\* a request: route, method, <int:task_id>, the class of its form field, the
\* storage fault it meets and the rows its id matched when it arrived
Request(op, method, id, input, fail, target) ==
  [op |-> op, method |-> method, id |-> id,
   input |-> input, fail |-> fail, target |-> target]

\* what CURRENT_TIMESTAMP may read at an INSERT: the wall clock, which may
\* have been set back since the newest row was stamped.  Stamps have a
\* resolution of one second and only their order is ever seen, so the
\* stamp is drawn around that of the newest row: the second before it, the
\* same second, or the next one
ClockReadings(rows) ==
  IF rows = {} THEN {0}
  ELSE LET newest == CHOOSE t \in {r.created_at : r \in rows} :
                       \A r \in rows : r.created_at <= t
       IN {newest - 1, newest, newest + 1}

Init ==
  /\ tasks = {}
  /\ seq = 0
  /\ pending = EmptyBag
  /\ last = Request("none", "GET", 0, "unread", "none", {})
  /\ flashes = <<>>
  /\ response = "none"
  /\ view = <<>>

\* GET /
index(fail) ==
  /\ last' = Request("index", "GET", 0, "unread", fail, {})
  /\ IF fail = "none"
       THEN /\ view' = SelectAll(tasks)
            /\ flashes' = <<>>
       ELSE /\ view' = <<>>
            /\ flashes' = <<Flash(MsgLoadFailed, "error")>>
  /\ response' = "render_index"
  /\ UNCHANGED <<tasks, seq, pending>>

\* POST /add
add_task(form, fail) ==
  LET task == escape(Strip(FormGet(form))) IN
  /\ last' = Request("add", "POST", 0, InputClass(form, {}), fail, {})
  /\ response' = "redirect_index"
  /\ view' = <<>>
  /\ IF ~Valid(task)
       THEN /\ fail = "none"
            /\ flashes' = <<Flash(MsgEmpty, "error")>>
            /\ UNCHANGED <<tasks, seq>>
       ELSE IF fail # "none"
         THEN /\ flashes' = <<Flash(MsgAddFailed, "error")>>
              /\ UNCHANGED <<tasks, seq>>
         ELSE /\ seq < MaxTasks
              /\ \E clock \in ClockReadings(tasks) :
                   tasks' = CloseConn(tasks,
                                      InsertRow(tasks, seq, task, clock), TRUE)
              /\ seq' = seq + 1
              /\ flashes' = <<Flash(MsgAdded, "success")>>
  /\ UNCHANGED pending

\* GET /delete/<id>
delete_task(task_id, fail) ==
  /\ last' = Request("delete", "GET", task_id, "unread", fail,
                     WhereId(tasks, task_id))
  /\ response' = "redirect_index"
  /\ view' = <<>>
  /\ IF fail # "none"
       THEN /\ flashes' = <<Flash(MsgDeleteFailed, "error")>>
            /\ UNCHANGED tasks
       ELSE /\ tasks' = CloseConn(tasks, DeleteRow(tasks, task_id), FALSE)
            /\ flashes' =
                 <<Flash(TASK_NOT_FOUND_MSG, "error")>>
                   \o (IF RowCount(tasks, task_id) = 0
                         THEN <<Flash(TASK_NOT_FOUND_MSG, "error")>>
                         ELSE <<Flash(MsgDeleted, "success")>>)
  /\ UNCHANGED <<seq, pending>>

\* the truth values `task` may have at line 225: the text of lines 222-224
\* does not determine it, so either where the line is reached; where it is
\* not (a successful POST, a raise) the value is never read
Found(reached) == IF reached THEN BOOLEAN ELSE {FALSE}

\* how edit_task answers: the redirect of a successful POST, the redirect
\* of the except branch, the redirect of `if not task`, else the edit view
EditResponse(success, raised, found) ==
  IF success \/ raised \/ ~found THEN "redirect_index" ELSE "render_edit"

\* what edit_task flashes from its SELECT on: nothing after a successful
\* POST, the failure message of the except branch, the not-found message
\* of `if not task`, nothing before it renders
EditSelectFlashes(success, raised, found) ==
  IF success THEN <<>>
  ELSE IF raised THEN <<Flash(MsgEditFailed, "error")>>
  ELSE IF ~found THEN <<Flash(TASK_NOT_FOUND_MSG, "error")>>
  ELSE <<>>

\* GET and POST /edit/<id>, where the handler runs one transaction: a GET,
\* a POST whose text is empty, whose connection, UPDATE or commit fails, or
\* whose UPDATE matches a row
edit_task(method, task_id, form, fail) ==
  LET new_task == escape(Strip(FormGet(form)))
      \* the form was read and passed validation: the UPDATE is executed
      posted == method = "POST" /\ fail # "connect" /\ Valid(new_task)
      \* the UPDATE and conn.commit() went through
      updated == posted /\ fail # "write"
      rowcount == RowCount(tasks, task_id)
      work == IF updated THEN UpdateDescription(tasks, task_id, new_task)
              ELSE tasks
      committed == updated
      success == committed /\ rowcount # 0
      raised == fail # "none"
      \* flashed inside the POST branch, before the SELECT
      posted_flashes ==
        IF method # "POST" \/ fail = "connect" THEN <<>>
        ELSE IF ~Valid(new_task) THEN <<Flash(MsgEmpty, "error")>>
        ELSE IF success THEN <<Flash(MsgUpdated, "success")>>
        ELSE <<>>
      target == WhereId(tasks, task_id)
  IN
  \* the form is read inside the POST branch, once the connection is open
  /\ (method = "GET" \/ fail = "connect") => form = NoForm
  \* "write": the UPDATE or the commit raises; "read": the SELECT raises
  /\ fail = "write" => posted
  /\ fail = "read" => ~posted
  /\ updated => rowcount # 0
  /\ tasks' = CloseConn(tasks, work, committed)
  /\ \E found \in Found(~success /\ ~raised) :
       /\ last' = Request("edit", method, task_id,
                          IF method = "GET" \/ fail = "connect"
                            THEN "unread" ELSE InputClass(form, target),
                          fail, target)
       /\ response' = EditResponse(success, raised, found)
       /\ flashes' = posted_flashes
                       \o EditSelectFlashes(success, raised, found)
  /\ view' = <<>>
  /\ UNCHANGED <<seq, pending>>

\* POST /edit/<id>, first transaction of a POST whose UPDATE matches no
\* row: the UPDATE and conn.commit(); 'Task not found!' is flashed and the
\* handler goes on to its SELECT
edit_update(task_id, form) ==
  LET new_task == escape(Strip(FormGet(form))) IN
  /\ BagCardinality(pending) < MaxInFlight
  /\ Valid(new_task)
  /\ RowCount(tasks, task_id) = 0
  /\ tasks' = CloseConn(tasks, UpdateDescription(tasks, task_id, new_task), TRUE)
  /\ pending' = pending (+) SetToBag({task_id})
  /\ UNCHANGED <<seq, last, flashes, response, view>>

\* POST /edit/<id>, second transaction of that POST: the SELECT and the
\* answer
edit_select(task_id, fail) ==
  LET raised == fail = "read" IN
  /\ BagIn(task_id, pending)
  /\ pending' = pending (-) SetToBag({task_id})
  /\ \E found \in Found(~raised) :
       /\ last' = Request("edit", "POST", task_id, "text", fail, {})
       /\ response' = EditResponse(FALSE, raised, found)
       /\ flashes' = <<Flash(TASK_NOT_FOUND_MSG, "error")>>
                       \o EditSelectFlashes(FALSE, raised, found)
  /\ view' = <<>>
  /\ UNCHANGED <<tasks, seq>>

\* GET /complete/<id>
complete_task(task_id, fail) ==
  LET work == UpdateCompleted(tasks, task_id)
      committed == fail = "none"
  IN
  /\ last' = Request("complete", "GET", task_id, "unread", fail,
                     WhereId(tasks, task_id))
  /\ response' = "redirect_index"
  /\ view' = <<>>
  /\ tasks' = CloseConn(tasks, work, committed)
  /\ flashes' =
       IF ~committed THEN <<Flash(MsgCompleteFailed, "error")>>
       ELSE IF RowCount(tasks, task_id) = 0
         THEN <<Flash(TASK_NOT_FOUND_MSG, "error")>>
         ELSE <<Flash(MsgCompleted, "success")>>
  /\ UNCHANGED <<seq, pending>>

\* Storage faults: "connect" (get_db_connection raises), "write" (the
\* INSERT, UPDATE, DELETE or the commit raises), "read" (a SELECT raises).
\* Where two faults end a handler the same way, one of them is drawn: in
\* add_task, complete_task and delete_task a failed connection and a failed
\* write both leave the table as it was and flash the handler's failure
\* message alone, as do a failed connection and a failed read in index and
\* in a GET of edit_task.  A POST of edit_task meets each of the three: a
\* failed connection before the form is read, a failed write after it, a
\* failed read after the validation message.
Next ==
  \/ \E fail \in {"none", "read"} : index(fail)
  \/ \E form \in Forms, fail \in {"none", "write"} : add_task(form, fail)
  \/ \E task_id \in TaskIds(seq), fail \in {"none", "read"} :
        edit_task("GET", task_id, NoForm, fail)
  \/ \E task_id \in TaskIds(seq), form \in Forms,
        fail \in {"none", "connect", "write", "read"} :
        edit_task("POST", task_id, form, fail)
  \/ \E task_id \in TaskIds(seq), form \in Forms :
        edit_update(task_id, form)
  \/ \E task_id \in BagToSet(pending), fail \in {"none", "read"} :
        edit_select(task_id, fail)
  \/ \E task_id \in TaskIds(seq), fail \in {"none", "write"} :
        complete_task(task_id, fail)
  \/ \E task_id \in TaskIds(seq), fail \in {"none", "write"} :
        delete_task(task_id, fail)

Spec == Init /\ [][Next]_vars

\* ---------------------------------------------------------------- claims
Flashed(msg) == \E i \in 1..Len(flashes) : flashes[i][1] = msg
FlashedSuccess == \E i \in 1..Len(flashes) : flashes[i][2] = "success"
ViewIds(v) == {v[i].id : i \in 1..Len(v)}
ViewRows(v) == {v[i] : i \in 1..Len(v)}
IsBlank(text) == \A i \in 1..Len(text) : IsSpace(text[i])
Mutating ==
  last.op \in {"add", "delete", "complete"}
    \/ (last.op = "edit" /\ last.method = "POST")

\* C1: after a delete request for a stored id answers with the success
\* message, the next list request does not show that id and shows every
\* other row as it was; the delete itself leaves the other rows alone.
C1_DeleteRemovesRow ==
  [][/\ (last'.op = "delete" /\ Flashed(MsgDeleted)')
          => \A r \in tasks : r.id # last'.id => r \in tasks'
     /\ (/\ last.op = "delete" /\ Flashed(MsgDeleted)
         /\ last'.op = "index" /\ last'.fail = "none")
          => /\ last.id \notin ViewIds(view')
             /\ \A r \in tasks : r.id # last.id => r \in ViewRows(view')]_vars

\* C2 (as claimed): a list request that follows a successful add shows the
\* new task exactly once, as the first element, in a list ordered by
\* created_at descending.
C2_AddThenListHead ==
  [][(/\ last.op = "add" /\ Flashed(MsgAdded)
      /\ last'.op = "index" /\ last'.fail = "none")
       => /\ Len(view') >= 1
          /\ view'[1].id = seq
          /\ Cardinality({i \in 1..Len(view') : view'[i].id = seq}) = 1
          /\ \A i, j \in 1..Len(view') :
               i < j => view'[i].created_at >= view'[j].created_at]_vars

\* C2 (amended): a list request that follows a successful add shows the new
\* task exactly once, in a list ordered by created_at descending; the new
\* task is the first element exactly when no stored row has a created_at
\* later than its own (the clock was not set back below the newest row).
C2_AddThenListHeadUnlessClockBack ==
  [][(/\ last.op = "add" /\ Flashed(MsgAdded)
      /\ last'.op = "index" /\ last'.fail = "none")
       => /\ Len(view') >= 1
          /\ Cardinality({i \in 1..Len(view') : view'[i].id = seq}) = 1
          /\ \A i, j \in 1..Len(view') :
               i < j => view'[i].created_at >= view'[j].created_at
          /\ \A new \in WhereId(tasks, seq) :
               view'[1].id = seq
                 <=> \A r \in tasks : r.created_at <= new.created_at]_vars

\* the newest row heads a listing in which it ties on created_at with an
\* older row
C2_Witness ==
  /\ last.op = "index" /\ last.fail = "none"
  /\ Len(view) >= 2
  /\ view[1].id = seq
  /\ view[1].created_at = view[2].created_at

\* C3: an add request whose field is missing, empty or all whitespace writes
\* nothing, flashes the validation message and redirects to the list.
C3_BlankAddNoWrite ==
  [][(last'.op = "add" /\ last'.input = "blank")
       => /\ tasks' = tasks
          /\ seq' = seq
          /\ flashes' = <<Flash(MsgEmpty, "error")>>
          /\ response' = "redirect_index"]_vars

\* a blank add has been answered while rows are stored
C3_Witness ==
  /\ last.op = "add" /\ last.input = "blank"
  /\ tasks # {}
  /\ Flashed(MsgEmpty)

\* C4: a delete request for an id that is not stored leaves the rows as
\* they were, redirects to the list, never flashes a success, and (when
\* storage does not fail) flashes the not-found message and nothing else.
C4_DeleteMissing ==
  [][(last'.op = "delete" /\ last'.target = {})
       => /\ tasks' = tasks
          /\ response' = "redirect_index"
          /\ ~FlashedSuccess'
          /\ last'.fail = "none"
               => /\ flashes' # <<>>
                  /\ \A i \in 1..Len(flashes') :
                       flashes'[i] = Flash(TASK_NOT_FOUND_MSG, "error")]_vars

\* a delete of an id that is not stored has been answered while rows are
\* stored
C4_Witness ==
  /\ last.op = "delete" /\ last.fail = "none" /\ last.target = {}
  /\ tasks # {}
  /\ Flashed(TASK_NOT_FOUND_MSG)

\* C5: every POST to /edit/<id> is answered with a redirect to the list,
\* never with the edit view.
C5_PostEditAlwaysRedirects ==
  (last.op = "edit" /\ last.method = "POST") => response = "redirect_index"

\* C6: a POST edit that submits the description the task already has leaves
\* the task's id, description and created_at as they were.
C6_ResubmitIsNoOp ==
  (/\ last.op = "edit" /\ last.method = "POST"
   /\ last.input = "same" /\ last.fail = "none")
    => \A r \in last.target :
         \E q \in tasks :
           /\ q.id = r.id
           /\ q.description = r.description
           /\ q.created_at = r.created_at

\* C7: a complete request for a stored id flashes the success message and
\* nothing else and leaves the row completed, also when the row is already
\* completed, and then the table is left exactly as it was.
C7_CompleteIdempotent ==
  [][(last'.op = "complete" /\ last'.fail = "none" /\ last'.target # {})
       => /\ flashes' = <<Flash(MsgCompleted, "success")>>
          /\ \A r \in tasks' : r.id = last'.id => r.is_completed
          /\ (\E r \in last'.target : r.is_completed) => tasks' = tasks]_vars

\* a complete request for an already completed row has been answered
C7_Witness ==
  /\ last.op = "complete" /\ last.fail = "none"
  /\ \E r \in last.target : r.is_completed
  /\ Flashed(MsgCompleted)

\* C8: every stored description is non-empty and not all whitespace.
C8_DescriptionNotBlank ==
  \A r \in tasks : r.description # <<>> /\ ~IsBlank(r.description)

\* rows are stored and the most recent request, an add or a POST edit, was
\* turned down for a blank text
C8_Witness ==
  /\ Cardinality(tasks) >= 2
  /\ last.op \in {"add", "edit"} /\ last.method = "POST"
  /\ last.input = "blank"
  /\ Flashed(MsgEmpty)

\* C9: a row is created with is_completed false; the flag turns true only
\* in a successful complete request for that id; once true it stays true
\* while the row exists; no add or edit changes the flag of any row.
C9_FlagOnlyByComplete ==
  [][\A q \in tasks' :
       LET old == WhereId(tasks, q.id) IN
       /\ old = {} => ~q.is_completed
       /\ \A r \in old :
            /\ r.is_completed => q.is_completed
            /\ (q.is_completed /\ ~r.is_completed)
                 => /\ last'.op = "complete"
                    /\ last'.id = q.id
                    /\ Flashed(MsgCompleted)'
            /\ last'.op \in {"add", "edit"}
                 => q.is_completed = r.is_completed]_vars

\* a completed row has had its description updated and is still completed
C9_Witness ==
  /\ last.op = "edit" /\ Flashed(MsgUpdated)
  /\ \E r \in last.target : r.is_completed
  /\ \E q \in tasks : q.id = last.id /\ q.is_completed

\* C10: every add, delete, POST edit and complete request flashes exactly
\* one message, whatever its outcome.
C10_OneFlashPerRequest ==
  Mutating => Len(flashes) = 1
====
